---- MODULE Spec2Model ----
(***************************************************************************)
(* Model of the two stateful components of the WIRALIS web client:        *)
(*   - BenefitCard (client/src/components/BenefitCard.tsx): the pointer    *)
(*     driven tilt state and the transform rendered from it;               *)
(*   - Profile (client/src/pages/profile.tsx): the cached record read from *)
(*     localStorage, the live lookup and the record the page displays.     *)
(*                                                                         *)
(* JavaScript numbers are modelled as IEEE-754 values without rounding:    *)
(* a signed rational (with a signed zero), a signed infinity, or NaN.      *)
(* Pixel coordinates and sizes are small integers, so no operation of the  *)
(* handler overflows; rounding is monotone and does not move a quotient    *)
(* across 0, 1 or -1.                                                      *)
(***************************************************************************)
EXTENDS Integers, Sequences, FiniteSets, TLC

VARIABLES onClick, tilt, last, wasIdle,
          storage, saved, localUser, query, userId, page

cardVars == <<onClick, tilt, last, wasIdle>>
profileVars == <<storage, saved, localUser, query, userId, page>>
vars == <<onClick, tilt, last, wasIdle,
          storage, saved, localUser, query, userId, page>>

(* ------------------------------ bounds -------------------------------- *)
\* largest width / height of the card's bounding rectangle
MaxSize == 2
\* largest left / top of the card's bounding rectangle
MaxOrigin == 1
\* how far outside the rectangle a pointer sample may lie
MaxOver == 1

Sizes == 0..MaxSize
Origins == {0, MaxOrigin}
\* clientX (clientY) values of a pointer over, or MaxOver outside, a rectangle
\* that starts at origin and is size wide (high)
ClientCoords(origin, size) ==
    {origin - MaxOver} \cup (origin..(origin + size)) \cup {origin + size + MaxOver}

(* -------------------------- IEEE-754 numbers -------------------------- *)
\* s: sign (1 or -1), m/d: magnitude as a reduced fraction
Abs(i) == IF i < 0 THEN 0 - i ELSE i

RECURSIVE GCD(_, _)
GCD(a, b) == IF b = 0 THEN a ELSE GCD(b, a % b)

NaN == [k |-> "nan", s |-> 1, m |-> 0, d |-> 0]
Inf(s) == [k |-> "inf", s |-> s, m |-> 1, d |-> 0]
Fin(s, m, d) ==
    LET g == GCD(m, d)
    IN  IF m = 0 THEN [k |-> "fin", s |-> s, m |-> 0, d |-> 1]
        ELSE [k |-> "fin", s |-> s, m |-> m \div g, d |-> d \div g]

Num(i) == Fin(IF i < 0 THEN -1 ELSE 1, Abs(i), 1)
IsZero(a) == a.k = "fin" /\ a.m = 0
IsFinite(a) == a.k = "fin"

\* a - b
Sub(a, b) ==
    IF a.k = "nan" \/ b.k = "nan" THEN NaN
    ELSE IF a.k = "inf" THEN (IF b.k = "inf" /\ b.s = a.s THEN NaN ELSE a)
    ELSE IF b.k = "inf" THEN Inf(0 - b.s)
    ELSE LET n == a.s * a.m * b.d - b.s * b.m * a.d
         IN  IF n = 0
             THEN Fin(IF IsZero(a) /\ IsZero(b) /\ a.s = -1 /\ b.s = 1 THEN -1 ELSE 1, 0, 1)
             ELSE Fin(IF n < 0 THEN -1 ELSE 1, Abs(n), a.d * b.d)

\* a / b
Div(a, b) ==
    IF a.k = "nan" \/ b.k = "nan" THEN NaN
    ELSE IF a.k = "inf" THEN (IF b.k = "inf" THEN NaN ELSE Inf(a.s * b.s))
    ELSE IF b.k = "inf" THEN Fin(a.s * b.s, 0, 1)
    ELSE IF IsZero(b) THEN (IF IsZero(a) THEN NaN ELSE Inf(a.s * b.s))
    ELSE Fin(a.s * b.s, a.m * b.d, a.d * b.m)

\* a * b
Mul(a, b) ==
    IF a.k = "nan" \/ b.k = "nan" THEN NaN
    ELSE IF a.k = "inf" \/ b.k = "inf"
         THEN (IF IsZero(a) \/ IsZero(b) THEN NaN ELSE Inf(a.s * b.s))
    ELSE Fin(a.s * b.s, a.m * b.m, a.d * b.d)

\* ToBoolean: 0, -0 and NaN are falsy
Truthy(a) == a.k = "inf" \/ (a.k = "fin" /\ a.m # 0)

(* ----------------------------- BenefitCard ---------------------------- *)
ZeroTilt == [x |-> Num(0), y |-> Num(0)]

\* variant: the centre is not subtracted from the sample
ComputeTiltUncentred(clientX, clientY, left, top, width, height) ==
    LET x == Sub(Num(clientX), Num(left))
        y == Sub(Num(clientY), Num(top))
        centerX == Div(Num(width), Num(2))
        centerY == Div(Num(height), Num(2))
    IN  [x |-> Mul(Div(y, centerY), Num(-8)), y |-> Mul(Div(x, centerX), Num(8))]

\* variant: the two axes are exchanged
ComputeTiltSwapped(clientX, clientY, left, top, width, height) ==
    LET x == Sub(Num(clientX), Num(left))
        y == Sub(Num(clientY), Num(top))
        centerX == Div(Num(width), Num(2))
        centerY == Div(Num(height), Num(2))
    IN  [x |-> Mul(Div(Sub(x, centerX), centerX), Num(8)),
         y |-> Mul(Div(Sub(y, centerY), centerY), Num(-8))]

\* variant: the centre is taken to be the full width and height
ComputeTiltFullSize(clientX, clientY, left, top, width, height) ==
    LET x == Sub(Num(clientX), Num(left))
        y == Sub(Num(clientY), Num(top))
        centerX == Num(width)
        centerY == Num(height)
    IN  [x |-> Mul(Div(Sub(y, centerY), centerY), Num(-8)),
         y |-> Mul(Div(Sub(x, centerX), centerX), Num(8))]

\* the tilt computed by handleMouseMove from the event and the rectangle
ComputeTilt(clientX, clientY, left, top, width, height) ==
    LET x == Sub(Num(clientX), Num(left))
        y == Sub(Num(clientY), Num(top))
        centerX == Div(Num(width), Num(2))
        centerY == Div(Num(height), Num(2))
        tiltX == Mul(Div(Sub(y, centerY), centerY), Num(-8))
        tiltY == Mul(Div(Sub(x, centerX), centerX), Num(8))
    IN  [x |-> tiltX, y |-> tiltY]

\* Idle: the tilt is numerically (0, 0) (JavaScript's -0 equals 0)
Idle(t) == IsZero(t.x) /\ IsZero(t.y)
Tilted(t) == ~Idle(t)

NoEvent == [kind |-> "none", x |-> 0, y |-> 0, w |-> 0, h |-> 0]
LeaveEvent == [kind |-> "leave", x |-> 0, y |-> 0, w |-> 0, h |-> 0]

\* variant: the handler lacks the early return of a card without onClick
handleMouseMoveUnguarded(clientX, clientY, left, top, width, height) ==
    /\ tilt' = ComputeTilt(clientX, clientY, left, top, width, height)
    /\ last' = [kind |-> "move", x |-> clientX - left, y |-> clientY - top,
                w |-> width, h |-> height]
    /\ wasIdle' = Idle(tilt)
    /\ UNCHANGED onClick
    /\ UNCHANGED profileVars

\* variant: a card that is already tilted keeps its tilt
handleMouseMoveSticky(clientX, clientY, left, top, width, height) ==
    /\ tilt' = IF ~onClick \/ Tilted(tilt) THEN tilt
               ELSE ComputeTilt(clientX, clientY, left, top, width, height)
    /\ last' = [kind |-> "move", x |-> clientX - left, y |-> clientY - top,
                w |-> width, h |-> height]
    /\ wasIdle' = Idle(tilt)
    /\ UNCHANGED onClick
    /\ UNCHANGED profileVars

handleMouseMove(clientX, clientY, left, top, width, height) ==
    /\ tilt' = IF ~onClick THEN tilt
               ELSE ComputeTilt(clientX, clientY, left, top, width, height)
    /\ last' = [kind |-> "move", x |-> clientX - left, y |-> clientY - top,
                w |-> width, h |-> height]
    /\ wasIdle' = Idle(tilt)
    /\ UNCHANGED onClick
    /\ UNCHANGED profileVars

\* variant: only the x component is reset
handleMouseLeaveKeepY ==
    /\ tilt' = [x |-> Num(0), y |-> tilt.y]
    /\ last' = LeaveEvent
    /\ wasIdle' = Idle(tilt)
    /\ UNCHANGED onClick
    /\ UNCHANGED profileVars

handleMouseLeave ==
    /\ tilt' = ZeroTilt
    /\ last' = LeaveEvent
    /\ wasIdle' = Idle(tilt)
    /\ UNCHANGED onClick
    /\ UNCHANGED profileVars

\* the scale(...) factor of the rendered transform, in hundredths
Scale(t) == IF Truthy(IF Truthy(t.x) THEN t.x ELSE t.y) THEN 102 ELSE 100

\* style.transform of the rendered card
Transform ==
    IF onClick
    THEN [rotateX |-> tilt.x, rotateY |-> tilt.y, scale |-> Scale(tilt)]
    ELSE "undefined"

\* the two layers of the shadow of a card with onClick
StaticShadow ==
    "0 10px 40px rgba(139, 92, 246, 0.2), inset 0 1px 0 rgba(255, 255, 255, 0.1)"

\* variant: the shadow is applied only while the card is tilted
BoxShadowWhenTilted ==
    IF onClick /\ (Truthy(tilt.x) \/ Truthy(tilt.y)) THEN StaticShadow ELSE "undefined"

\* style.boxShadow of the rendered card
BoxShadow == IF onClick THEN StaticShadow ELSE "undefined"

(* ------------------------------- Profile ------------------------------ *)
\* JavaScript null and undefined, and two versions of one profile record
Null == [null |-> TRUE]
Undefined == [undefined |-> TRUE]
StaleUser == [id |-> "u1", nickname |-> "old"]
LiveUser == [id |-> "u1", nickname |-> "new"]
Records == {StaleUser, LiveUser}

\* ToBoolean of null, undefined or an object
TruthyValue(v) == v # Null /\ v # Undefined

\* localStorage.getItem('wiralis_user'): null, or the stored text
NoItem == [has |-> FALSE, text |-> ""]
Item(text) == [has |-> TRUE, text |-> text]

\* JSON.stringify of a record
Stringify(r) == "{\"id\":\"" \o r.id \o "\",\"nickname\":\"" \o r.nickname \o "\"}"

\* JSON.parse: the value of a well-formed text, or a SyntaxError
JSONParse(text) ==
    IF text = "null" THEN [ok |-> TRUE, value |-> Null]
    ELSE IF \E r \in Records : text = Stringify(r)
         THEN [ok |-> TRUE, value |-> CHOOSE r \in Records : text = Stringify(r)]
    ELSE [ok |-> FALSE, value |-> Undefined]

\* texts the storage slot may hold: empty, truncated, the JSON null, a record
StoredTexts == {"", "{\"id\":\"u1\",\"nick", "null"} \cup {Stringify(r) : r \in Records}
StorageValues == {NoItem} \cup {Item(t) : t \in StoredTexts}

FreshQuery == [status |-> "pending", data |-> Undefined, fetching |-> FALSE]
OnPage == page \in {"rendered", "mounted"}

\* the route /profile/:userId is entered: first render, before any effect
Navigate(uid) ==
    /\ page = "away"
    /\ page' = "rendered"
    /\ userId' = uid
    /\ localUser' = Null
    /\ saved' = NoItem
    /\ query' = IF uid = "none" THEN FreshQuery
                ELSE [query EXCEPT !.fetching = TRUE]
    /\ UNCHANGED storage
    /\ UNCHANGED cardVars

\* the mount effect: read the cached record once
ReadSavedUser ==
    /\ page = "rendered"
    /\ saved' = storage
    /\ localUser' = IF storage.has /\ storage.text # "" /\ JSONParse(storage.text).ok
                    THEN JSONParse(storage.text).value
                    ELSE localUser
    /\ page' = "mounted"
    /\ UNCHANGED <<storage, query, userId>>
    /\ UNCHANGED cardVars

\* the live lookup returns a record
FetchSuccess(r) ==
    /\ OnPage /\ userId # "none" /\ query.fetching
    /\ query' = [status |-> "success", data |-> r, fetching |-> FALSE]
    /\ UNCHANGED <<storage, saved, localUser, userId, page>>
    /\ UNCHANGED cardVars

\* the live lookup fails; a record returned earlier is kept
FetchError ==
    /\ OnPage /\ userId # "none" /\ query.fetching
    /\ query' = [status |-> "error", data |-> query.data, fetching |-> FALSE]
    /\ UNCHANGED <<storage, saved, localUser, userId, page>>
    /\ UNCHANGED cardVars

\* the lookup is started again (focus, reconnect)
Refetch ==
    /\ OnPage /\ userId # "none" /\ ~query.fetching
    /\ query' = [query EXCEPT !.fetching = TRUE]
    /\ UNCHANGED <<storage, saved, localUser, userId, page>>
    /\ UNCHANGED cardVars

handleLogout ==
    /\ OnPage /\ userId # "none"
    /\ storage' = NoItem
    /\ page' = "away"
    /\ UNCHANGED <<saved, localUser, query, userId>>
    /\ UNCHANGED cardVars

\* the logo link, or the browser, leaves the page
LeavePage ==
    /\ OnPage
    /\ page' = "away"
    /\ UNCHANGED <<storage, saved, localUser, query, userId>>
    /\ UNCHANGED cardVars

\* another page or tab writes the storage slot
StorageWrite(v) ==
    /\ storage' = v
    /\ UNCHANGED <<saved, localUser, query, userId, page>>
    /\ UNCHANGED cardVars

user == query.data
isLoading == query.status = "pending"
error == query.status = "error"

\* variant: the cached record is preferred
displayUserCachedFirst == IF TruthyValue(localUser) THEN localUser ELSE user

displayUser == IF TruthyValue(user) THEN user ELSE localUser

\* what the page renders
View ==
    IF ~OnPage THEN [kind |-> "none", record |-> Null]
    ELSE IF userId = "none" THEN [kind |-> "notFound", record |-> Null]
    ELSE IF isLoading THEN [kind |-> "skeleton", record |-> Null]
    ELSE IF error THEN [kind |-> "error", record |-> Null]
    ELSE IF TruthyValue(displayUser) THEN [kind |-> "profile", record |-> displayUser]
    ELSE [kind |-> "empty", record |-> Null]

ProfileIdle ==
    /\ storage = NoItem
    /\ saved = NoItem
    /\ localUser = Null
    /\ query = FreshQuery
    /\ userId = "none"
    /\ page = "away"

CardIdle ==
    /\ onClick = FALSE
    /\ tilt = ZeroTilt
    /\ last = NoEvent
    /\ wasIdle = TRUE

Init ==
    /\ onClick \in BOOLEAN
    /\ tilt = ZeroTilt
    /\ last = NoEvent
    /\ wasIdle = TRUE
    /\ ProfileIdle

MouseMove ==
    \E left \in Origins, top \in Origins, width \in Sizes, height \in Sizes :
      \E clientX \in ClientCoords(left, width), clientY \in ClientCoords(top, height) :
        handleMouseMove(clientX, clientY, left, top, width, height)

MouseLeave == handleMouseLeave

Next == MouseMove \/ MouseLeave

Spec == Init /\ [][Next]_vars

InitProfile ==
    /\ CardIdle
    /\ storage \in StorageValues
    /\ saved = NoItem
    /\ localUser = Null
    /\ query = FreshQuery
    /\ userId = "none"
    /\ page = "away"

NextProfile ==
    \/ \E uid \in {"none", "u1"} : Navigate(uid)
    \/ ReadSavedUser
    \/ \E r \in Records : FetchSuccess(r)
    \/ FetchError
    \/ Refetch
    \/ handleLogout
    \/ LeavePage
    \/ \E v \in StorageValues : StorageWrite(v)

SpecProfile == InitProfile /\ [][NextProfile]_vars

(* ------------------------- BenefitCard: claims ------------------------ *)
\* a finite value of magnitude at most 8
Bounded(a) == IsFinite(a) /\ a.m <= 8 * a.d
\* the signed numerator of a finite value
SignedNum(a) == a.s * a.m

LastMove == last.kind = "move"
NonDegenerate == last.w > 0 /\ last.h > 0
WithinSurface == 0 <= last.x /\ last.x <= last.w /\ 0 <= last.y /\ last.y <= last.h

\* C1: in every reachable state of a card the tilt is finite and each
\* component has magnitude at most 8, whatever the surface size and sample.
TiltAlwaysBounded == Bounded(tilt.x) /\ Bounded(tilt.y)

\* C2: after a pointer-move over a degenerate surface (width 0 or height 0)
\* the tilt is (0, 0), never NaN or infinite.
DegenerateSurfaceNeutral ==
    (LastMove /\ (last.w = 0 \/ last.h = 0)) => Idle(tilt)

\* C3: after a pointer-move on an interactive card with a sample inside a
\* surface of positive width and height, both tilt components lie in [-8, 8].
TiltWithinSurfaceBounded ==
    (onClick /\ LastMove /\ NonDegenerate /\ WithinSurface)
        => (Bounded(tilt.x) /\ Bounded(tilt.y))

\* C3 witness: a move at the corner (W, 0) of the largest surface, where
\* both components reach the bound 8.
CornerReachesBound ==
    /\ onClick /\ LastMove
    /\ last.w = MaxSize /\ last.h = MaxSize /\ last.x = last.w /\ last.y = 0
    /\ tilt = [x |-> Num(8), y |-> Num(8)]

\* C4: after a pointer-move on an interactive card with a surface of positive
\* width W and height H, tiltX = ((y - H/2) / (H/2)) * -8 and
\* tiltY = ((x - W/2) / (W/2)) * 8; the centre gives (0, 0), the corner
\* (W, H) gives (-8, 8) and the corner (0, 0) gives (8, -8).
TiltFormula ==
    (onClick /\ LastMove /\ NonDegenerate) =>
        /\ IsFinite(tilt.x) /\ IsFinite(tilt.y)
        /\ SignedNum(tilt.x) * last.h = (0 - 8) * (2 * last.y - last.h) * tilt.x.d
        /\ SignedNum(tilt.y) * last.w = 8 * (2 * last.x - last.w) * tilt.y.d
        /\ (2 * last.x = last.w /\ 2 * last.y = last.h) => Idle(tilt)
        /\ (last.x = last.w /\ last.y = last.h) => tilt = [x |-> Num(-8), y |-> Num(8)]
        /\ (last.x = 0 /\ last.y = 0) => tilt = [x |-> Num(8), y |-> Num(-8)]

\* C4 witness: a move at the corner (W, H) of a surface twice as wide as
\* high has set the tilt to (-8, 8).
FarCornerTilt ==
    /\ onClick /\ LastMove
    /\ last.w = 2 /\ last.h = 1 /\ last.x = 2 /\ last.y = 1
    /\ tilt = [x |-> Num(-8), y |-> Num(8)]

\* C5: after a pointer-leave the tilt is (0, 0), on interactive and
\* non-interactive cards alike and whatever the state it was received in;
\* a second pointer-leave in a row leaves it at (0, 0).
LeaveResetsTilt == (last.kind = "leave") => tilt = ZeroTilt

\* C5 witness: an interactive card was tilted, then received pointer-leave.
LeaveAfterTilted ==
    onClick /\ last.kind = "leave" /\ ~wasIdle
        /\ tilt = ZeroTilt

\* C6: on a card without onClick a pointer-move leaves the tilt unchanged,
\* and the tilt of such a card is (0, 0) in every reachable state.
NonInteractiveMoveIgnored ==
    /\ [](~onClick => tilt = ZeroTilt)
    /\ [][(~onClick /\ last'.kind = "move") => tilt' = tilt]_vars

\* C6 witness: a card without onClick received a move at the corner (0, 0)
\* of a non-degenerate surface and still has tilt (0, 0).
NonInteractiveMoved ==
    ~onClick /\ LastMove /\ NonDegenerate /\ last.x = 0 /\ last.y = 0
        /\ tilt = ZeroTilt

\* C7: the rendered scale of an interactive card is 1.0 exactly when the
\* tilt is (0, 0) and 1.02 otherwise.
ScaleIffTilted ==
    onClick => /\ (Transform.scale = 100) <=> Idle(tilt)
               /\ Tilted(tilt) => Transform.scale = 102

\* the sample of a pointer-move is the exact centre of a non-degenerate
\* surface: the only sample whose computed tilt is (0, 0)
AtCentre(e) == e.w > 0 /\ e.h > 0 /\ 2 * e.x = e.w /\ 2 * e.y = e.h

\* C8 as stated: every step is Idle -move-> Tilted (Idle when the computed
\* tilt is zero), Tilted -move-> Tilted, or -leave-> Idle; a pointer-move
\* never takes a Tilted card to Idle. (Stated for the Tilted states with a
\* finite tilt, those a non-degenerate surface produces.)
TwoStateMachine ==
    [][/\ (last'.kind = "move" /\ Tilted(tilt) /\ IsFinite(tilt.x) /\ IsFinite(tilt.y))
            => Tilted(tilt')
       /\ (last'.kind = "leave") => Idle(tilt')]_vars

\* C8 amended: the card starts Idle; a pointer-leave takes it to Idle; a
\* pointer-move on an interactive card takes it, from Idle and from Tilted
\* alike, to Idle when the sample is the exact centre of a non-degenerate
\* surface and to Tilted otherwise; a pointer-move on a card without onClick
\* keeps its state; both events stay enabled.
TiltStateMachine ==
    /\ Idle(tilt)
    /\ [][/\ (last'.kind = "leave") => Idle(tilt')
          /\ (last'.kind = "move" /\ onClick) => (Idle(tilt') <=> AtCentre(last'))
          /\ (last'.kind = "move" /\ ~onClick) => (Idle(tilt') <=> Idle(tilt))]_vars
    /\ [](ENABLED handleMouseMove(0, 0, 0, 0, 0, 0) /\ ENABLED handleMouseLeave)

\* C8 witness: a pointer-move has taken a Tilted interactive card to Idle.
TiltedMovedToIdle ==
    onClick /\ LastMove /\ ~wasIdle /\ Idle(tilt)

\* C9: on an interactive card the tilt depends only on the last event: it is
\* (0, 0) after a pointer-leave and, after a pointer-move, the value fixed by
\* that move's sample and surface size, whatever came before.
TiltDependsOnLastEvent ==
    onClick =>
        /\ (last.kind = "none" \/ last.kind = "leave") => tilt = ZeroTilt
        /\ LastMove => tilt = ComputeTilt(last.x, last.y, 0, 0, last.w, last.h)

\* C9 witness: a pointer-move away from the centre received by a card that
\* an earlier pointer-move had already tilted.
MoveAfterTilted ==
    onClick /\ LastMove /\ ~wasIdle /\ Tilted(tilt)

(* --------------------------- Profile: claims -------------------------- *)
\* the value the mount effect obtains from the text it read
CachedValue(item) ==
    IF item.has /\ item.text # "" /\ JSONParse(item.text).ok
    THEN JSONParse(item.text).value
    ELSE Null

\* C10: once the live lookup has returned a record, the displayed record is
\* that record and the rendered card shows it, never the cached one; a
\* displayed record other than the live one occurs only while the lookup is
\* pending or failed; the cached record is what the mount effect read, once;
\* a stored text that fails to parse leaves it absent and the page mounted.
LiveRecordPreferred ==
    /\ OnPage =>
        /\ user \in Records => displayUser = user
        /\ View.kind = "profile" => View.record = user
        /\ (TruthyValue(displayUser) /\ displayUser # user)
              => (query.status \in {"pending", "error"} /\ displayUser = localUser)
    /\ page = "rendered" => localUser = Null
    /\ page = "mounted" => localUser = CachedValue(saved)
    /\ (page = "mounted" /\ saved.has /\ ~JSONParse(saved.text).ok) => localUser = Null

\* C10 witness: the page holds a stale cached record, the lookup has returned
\* the live one, and the card shows the live one.
LiveShownOverCached ==
    /\ page = "mounted" /\ localUser = StaleUser
    /\ query.status = "success" /\ user = LiveUser
    /\ View = [kind |-> "profile", record |-> LiveUser]

(* ---------------------- BenefitCard: elevation claim ------------------ *)
\* C11: in every reachable state of an interactive card the static box
\* shadow is applied, whatever the tilt: before any pointer event, while
\* tilted (finite or not) and after a pointer-leave.
ShadowAlwaysApplied ==
    onClick => (BoxShadow # "undefined" /\ BoxShadow = StaticShadow)

\* C11 witness: an interactive card was tilted, a pointer-leave has put it
\* back to (0, 0), and its shadow is still applied.
ShadowAfterLeave ==
    /\ onClick /\ last.kind = "leave" /\ ~wasIdle /\ Idle(tilt)
    /\ BoxShadow = StaticShadow

====
